---- MODULE Spec2Model ----
(***************************************************************************)
(* Model of tools/ckeywords.c: the generator that filters the keyword      *)
(* table contributed by TokenKinds.def and prints it as a Python           *)
(* frozenset literal, wrapped at 80 columns.                               *)
(*                                                                         *)
(* Strings are sequences of one-character strings; stdout and stderr are   *)
(* the character streams the process has written so far.                   *)
(***************************************************************************)
EXTENDS Integers, Sequences, FiniteSets, TLC

VARIABLES table, pc, regex, i, newline, column, stdout, stderr, status

vars == <<table, pc, regex, i, newline, column, stdout, stderr, status>>

(***************************************************************************)
(* Bounds and inputs                                                       *)
(***************************************************************************)
\* Largest number of entries TokenKinds.def contributes in the model.
MaxTable == 3

Rep(c, n) == [k \in 1..n |-> c]

\* A keyword of n characters: an underscore followed by letters.
Long(n) == <<"_">> \o Rep("x", n - 1)

\* The (string, category) pairs a KEYWORD/ALIAS line may contribute.  The
\* category is the value of the profile expression (lines 42-59): 0 or 1.
Entries ==
    { [string |-> <<"i","n","t">>, category |-> 1],
      [string |-> <<"i","n","t">>, category |-> 0],
      [string |-> <<"r","e","s","t","r","i","c","t">>, category |-> 0],
      [string |-> <<"1","2","3","b","a","d">>, category |-> 1],
      [string |-> <<>>, category |-> 1],
      [string |-> <<"a","b","c","1","2","3","!">>, category |-> 1],
      [string |-> Long(32), category |-> 1],
      [string |-> Long(33), category |-> 1],
      [string |-> Long(36), category |-> 1],
      [string |-> Long(73), category |-> 1],
      [string |-> Long(74), category |-> 1],
      [string |-> Long(79), category |-> 1] }

Tables == UNION { [1..n -> Entries] : n \in 0..MaxTable }

(***************************************************************************)
(* Program constants                                                       *)
(***************************************************************************)
\* The null pointer: a value no character string equals.
NULL == <<"NULL">>

EXIT_SUCCESS == 0
EXIT_FAILURE == 1
NotExited == -1

indent == <<" "," "," "," ">>
wrap_at == 80

header ==
    <<"#","!","/","u","s","r","/","b","i","n","/","e","n","v"," ","p","y","t","h","o","n","\n">>
    \o <<"#"," ","-","*","-"," ","c","o","d","i","n","g",":"," ","u","t","f","-","8"," ","-","*","-","\n">>
    \o <<"\n">>
    \o <<"#","\n">>
    \o <<"#"," ","C","o","p","y","r","i","g","h","t"," ","2","0","1","5",","," ","N","I","C","T","A","\n">>
    \o <<"#","\n">>
    \o <<"#"," ","T","h","i","s"," ","s","o","f","t","w","a","r","e"," ","m","a","y"," ","b","e"," ","d","i","s","t","r","i","b","u","t","e","d"," ","a","n","d"," ","m","o","d","i","f","i","e","d"," ","a","c","c","o","r","d","i","n","g"," ","t","o"," ","t","h","e"," ","t","e","r","m","s"," ","o","f","\n">>
    \o <<"#"," ","t","h","e"," ","B","S","D"," ","2","-","C","l","a","u","s","e"," ","l","i","c","e","n","s","e","."," ","N","o","t","e"," ","t","h","a","t"," ","N","O"," ","W","A","R","R","A","N","T","Y"," ","i","s"," ","p","r","o","v","i","d","e","d",".","\n">>
    \o <<"#"," ","S","e","e"," ","\"","L","I","C","E","N","S","E","_","B","S","D","2",".","t","x","t","\""," ","f","o","r"," ","d","e","t","a","i","l","s",".","\n">>
    \o <<"#","\n">>
    \o <<"#"," ","@","T","A","G","(","N","I","C","T","A","_","B","S","D",")","\n">>
    \o <<"#","\n">>
    \o <<"\n">>
    \o <<"#"," ","G","e","n","e","r","a","t","e","d"," ","b","y"," ","c","k","e","y","w","o","r","d","s",".","c","."," ","D","o"," ","n","o","t"," ","e","d","i","t"," ","m","a","n","u","a","l","l","y",".","\n">>
    \o <<"\n">>
    \o <<"f","r","o","m"," ","_","_","f","u","t","u","r","e","_","_"," ","i","m","p","o","r","t"," ","a","b","s","o","l","u","t","e","_","i","m","p","o","r","t",","," ","d","i","v","i","s","i","o","n",","," ","p","r","i","n","t","_","f","u","n","c","t","i","o","n",","," ","\\","\n">>
    \o <<" "," "," "," ","u","n","i","c","o","d","e","_","l","i","t","e","r","a","l","s","\n">>
    \o <<"f","r","o","m"," ","c","a","m","k","e","s",".","i","n","t","e","r","n","a","l",".","s","e","v","e","n"," ","i","m","p","o","r","t"," ","c","m","p",","," ","f","i","l","t","e","r",","," ","m","a","p",","," ","z","i","p","\n">>
    \o <<"\n">>
    \o <<"#"," ","A"," ","l","i","s","t"," ","o","f"," ","C"," ","k","e","y","w","o","r","d","s"," ","f","o","r"," ","t","h","e"," ","p","u","r","p","o","s","e"," ","o","f"," ","w","a","r","n","i","n","g"," ","t","h","e"," ","u","s","e","r"," ","w","h","e","n"," ","a"," ","s","y","m","b","o","l"," ","i","n","\n">>
    \o <<"#"," ","t","h","e","i","r"," ","i","n","p","u","t"," ","s","p","e","c","i","f","i","c","a","t","i","o","n"," ","i","s"," ","l","i","k","e","l","y"," ","t","o"," ","c","a","u","s","e"," ","c","o","m","p","i","l","e","r"," ","e","r","r","o","r","s",".","\n">>
    \o <<"C","_","K","E","Y","W","O","R","D","S"," ","="," ","f","r","o","z","e","n","s","e","t","(","[","\n">>

footer == <<"]",")","\n">>

\* What perror() writes when regcomp fails (the errno text is abstracted).
perror_text == <<"f","a","i","l","e","d"," ","t","o"," ","c","o","m","p","i","l","e"," ","r","e","g","e","x",":"," ","E","\n">>

(***************************************************************************)
(* Library functions and macros                                            *)
(***************************************************************************)
strlen(s) == Len(s)

\* Faulty variant: the category is not consulted.
KEYWORD_IgnoringCategory(string, category) == string

\* #define KEYWORD_(string, category) (category) ? string : NULL,
KEYWORD_(string, category) == IF category # 0 THEN string ELSE NULL

\* static char *keywords[] = { #include <TokenKinds.def> };
keywords == [k \in 1..Len(table) |-> KEYWORD_(table[k].string, table[k].category)]

Letters == {"a","b","c","d","e","f","g","h","i","j","k","l","m","n","o","p","q","r","s","t","u","v","w","x","y","z","A","B","C","D","E","F","G","H","I","J","K","L","M","N","O","P","Q","R","S","T","U","V","W","X","Y","Z"}
Digits == {"0","1","2","3","4","5","6","7","8","9"}

\* Bracket expression [a-zA-Z_]
IsIdentStart(c) == c \in Letters \cup {"_"}
\* Bracket expression [a-zA-Z0-9_]
IsIdentChar(c) == c \in Letters \cup Digits \cup {"_"}

\* Length of the longest match of [a-zA-Z0-9_]* starting at position k of s:
\* the run of identifier characters up to the first other character.
StarLen(s, k) ==
    LET stop == { j \in k..Len(s) : ~IsIdentChar(s[j]) }
    IN  IF stop = {} THEN Len(s) - k + 1
        ELSE (CHOOSE j \in stop : \A h \in stop : j <= h) - k

\* The end offset of the match of "^[a-zA-Z_][a-zA-Z0-9_]*" anchored at the
\* start of s; 0 when s does not match.  The pattern has no end anchor, so
\* the match need not cover s.
MatchEnd(s) ==
    IF Len(s) >= 1 /\ IsIdentStart(s[1]) THEN 1 + StarLen(s, 2) ELSE 0

REG_NOMATCH == "REG_NOMATCH"
REG_OK == "REG_OK"

\* Faulty variant: the pattern is anchored at both ends.
regexec_WholeString(s) ==
    IF MatchEnd(s) # 0 /\ MatchEnd(s) = Len(s) THEN REG_OK ELSE REG_NOMATCH

\* regexec(&regex, s, 0, NULL, 0)
regexec(s) == IF MatchEnd(s) = 0 THEN REG_NOMATCH ELSE REG_OK

(***************************************************************************)
(* The steps of the loop body, lines 130-146                               *)
(***************************************************************************)
\* Faulty variants: the quotes, comma and space are not counted; the
\* comparison is not strict.
NeedsWrap_NoOverhead(col, len) == col + len > wrap_at
NeedsWrap_AtLeast(col, len) == col + len + 4 >= wrap_at

\* if (column + len + 4 > wrap_at)
NeedsWrap(col, len) == col + len + 4 > wrap_at

\* column += strlen(indent) when the token starts a line
AfterIndent(col, nl) == IF nl THEN col + strlen(indent) ELSE col

\* printf("%s", indent) or printf(" ")
Lead(nl) == IF nl THEN indent ELSE <<" ">>

\* printf("'%s',", keywords[i])
QuotedToken(kw) == <<"'">> \o kw \o <<"'", ",">>

\* Faulty variant: the separating space is not counted.
AfterToken_NoSpace(col, len) == col + len + 3

\* column += len + 4
AfterToken(col, len) == col + len + 4

(***************************************************************************)
(* State machine                                                           *)
(***************************************************************************)
Init ==
    /\ table \in Tables
    /\ pc = "regcomp"
    /\ regex = "uncompiled"
    /\ i = 0
    /\ newline = TRUE
    /\ column = 0
    /\ stdout = <<>>
    /\ stderr = <<>>
    /\ status = NotExited

\* Faulty variant: the header is printed before the pattern is compiled.
RegcompFails_AfterHeader ==
    /\ pc = "regcomp"
    /\ stdout' = stdout \o header
    /\ stderr' = stderr \o perror_text
    /\ status' = EXIT_FAILURE
    /\ pc' = "exit"
    /\ UNCHANGED <<table, regex, i, newline, column>>

\* regcomp fails: perror and return EXIT_FAILURE (lines 113-116).
RegcompFails ==
    /\ pc = "regcomp"
    /\ stderr' = stderr \o perror_text
    /\ status' = EXIT_FAILURE
    /\ pc' = "exit"
    /\ UNCHANGED <<table, regex, i, newline, column, stdout>>

\* regcomp succeeds and the header is printed (lines 113-118).
RegcompOk ==
    /\ pc = "regcomp"
    /\ regex' = "compiled"
    /\ stdout' = stdout \o header
    /\ pc' = "loop"
    /\ UNCHANGED <<table, i, newline, column, stderr, status>>

\* keywords[i] == NULL: continue (lines 122-124).
SkipInapplicable ==
    /\ pc = "loop"
    /\ i < Len(keywords)
    /\ keywords[i + 1] = NULL
    /\ i' = i + 1
    /\ UNCHANGED <<table, pc, regex, newline, column, stdout, stderr, status>>

\* regexec(...) == REG_NOMATCH: continue (lines 126-128).
SkipNoMatch ==
    /\ pc = "loop"
    /\ i < Len(keywords)
    /\ keywords[i + 1] # NULL
    /\ regexec(keywords[i + 1]) = REG_NOMATCH
    /\ i' = i + 1
    /\ UNCHANGED <<table, pc, regex, newline, column, stdout, stderr, status>>

\* The keyword is printed (lines 130-146).
EmitKeyword ==
    /\ pc = "loop"
    /\ i < Len(keywords)
    /\ keywords[i + 1] # NULL
    /\ regexec(keywords[i + 1]) # REG_NOMATCH
    /\ LET kw   == keywords[i + 1]
           len  == strlen(kw)
           wrap == NeedsWrap(column, len)
           out1 == IF wrap THEN stdout \o <<"\n">> ELSE stdout
           col1 == IF wrap THEN 0 ELSE column
           nl1  == IF wrap THEN TRUE ELSE newline
           out2 == out1 \o Lead(nl1)
           col2 == AfterIndent(col1, nl1)
       IN  /\ stdout' = out2 \o QuotedToken(kw)
           /\ column' = AfterToken(col2, len)
           /\ newline' = FALSE
    /\ i' = i + 1
    /\ UNCHANGED <<table, pc, regex, stderr, status>>

\* End of the table: regfree, newline and footer, EXIT_SUCCESS (lines 149-153).
Finish ==
    /\ pc = "loop"
    /\ i = Len(keywords)
    /\ regex' = "freed"
    /\ stdout' = stdout \o <<"\n">> \o footer
    /\ status' = EXIT_SUCCESS
    /\ pc' = "exit"
    /\ UNCHANGED <<table, i, newline, column, stderr>>

Next ==
    \/ RegcompFails
    \/ RegcompOk
    \/ SkipInapplicable
    \/ SkipNoMatch
    \/ EmitKeyword
    \/ Finish

Spec == Init /\ [][Next]_vars

\* The process is always scheduled: main runs until it returns.
FairSpec == Spec /\ WF_vars(Next)

TypeOK ==
    /\ table \in Tables
    /\ pc \in {"regcomp", "loop", "exit"}
    /\ i \in 0..Len(table)
    /\ newline \in BOOLEAN
    /\ column \in Nat
    /\ status \in {NotExited, EXIT_SUCCESS, EXIT_FAILURE}

(***************************************************************************)
(* Reading the output back: lines and tokens of a character stream         *)
(***************************************************************************)
Min(S) == CHOOSE x \in S : \A y \in S : x <= y

Range(f) == { f[k] : k \in DOMAIN f }

IsPrefix(p, s) == Len(p) <= Len(s) /\ SubSeq(s, 1, Len(p)) = p

IsSuffix(p, s) == Len(p) <= Len(s) /\ SubSeq(s, Len(s) - Len(p) + 1, Len(s)) = p

\* The pieces of s between newline characters; the last piece is the line
\* that is not terminated yet.
RECURSIVE Split(_)
Split(s) ==
    LET nl == { k \in 1..Len(s) : s[k] = "\n" }
    IN  IF nl = {} THEN <<s>>
        ELSE <<SubSeq(s, 1, Min(nl) - 1)>> \o Split(SubSeq(s, Min(nl) + 1, Len(s)))

\* The texts found between successive pairs of single quotes in s.
RECURSIVE TokensOf(_)
TokensOf(s) ==
    LET q == { k \in 1..Len(s) : s[k] = "'" }
    IN  IF Cardinality(q) < 2 THEN <<>>
        ELSE LET a == Min(q)
                 b == Min(q \ {a})
             IN  <<SubSeq(s, a + 1, b - 1)>> \o TokensOf(SubSeq(s, b + 1, Len(s)))

\* A token as the output format writes it: quote, text, quote, comma.
Quoted(t) == <<"'">> \o t \o <<"'", ",">>

RECURSIVE Concat(_)
Concat(ss) == IF ss = <<>> THEN <<>> ELSE Head(ss) \o Concat(Tail(ss))

\* Tokens laid out on one line: single spaces between them.
RECURSIVE Joined(_)
Joined(ts) ==
    IF Len(ts) = 1 THEN Quoted(ts[1])
    ELSE Quoted(ts[1]) \o <<" ">> \o Joined(Tail(ts))

\* A keyword line: the indentation, then one or more tokens.
WellShaped(line) ==
    LET ts == TokensOf(line)
    IN  ts # <<>> /\ line = indent \o Joined(ts)

HeaderWritten == IsPrefix(header, stdout)

\* What has been written after the header.
Body == IF HeaderWritten THEN SubSeq(stdout, Len(header) + 1, Len(stdout)) ELSE <<>>

Finished == pc = "exit" /\ status = EXIT_SUCCESS

\* The line being written (characters since the last newline).
CurLine == Split(Body)[Len(Split(Body))]

\* The lines written after the header: while the loop runs, every line up to
\* and including the current one; after the footer, the lines before it.
KeywordLines ==
    LET ls == Split(Body)
    IN  IF Finished /\ IsSuffix(<<"\n">> \o footer, Body)
        THEN SubSeq(ls, 1, Len(ls) - 2)
        ELSE ls

\* The lines of the header; the header ends with a newline, so the last
\* piece is empty.
HeaderLines == Split(header)

\* All lines of the output, header and footer included.
AllLines ==
    IF HeaderWritten
    THEN SubSeq(HeaderLines, 1, Len(HeaderLines) - 1) \o Split(Body)
    ELSE Split(stdout)

OutTokens == TokensOf(Body)

(***************************************************************************)
(* The filter as the specification words it                                *)
(***************************************************************************)
Applicable(e) == e.category # 0

StartsLikeIdentifier(t) ==
    Len(t) >= 1 /\ (t[1] \in Letters \/ t[1] = "_")

WholeIdentifier(t) ==
    /\ StartsLikeIdentifier(t)
    /\ \A k \in 2..Len(t) : t[k] \in Letters \cup Digits \cup {"_"}

AcceptedEntry(e) == Applicable(e) /\ StartsLikeIdentifier(e.string)

\* Texts of the accepted entries among the first n entries, in table order.
RECURSIVE AcceptedTexts(_)
AcceptedTexts(n) ==
    IF n = 0 THEN <<>>
    ELSE IF AcceptedEntry(table[n]) THEN Append(AcceptedTexts(n - 1), table[n].string)
         ELSE AcceptedTexts(n - 1)

NoSpace(s) == SelectSeq(s, LAMBDA c : c \notin {" ", "\n"})

\* Largest text length for which indentation, quotes and comma fit in wrap_at.
FitsAlone(t) == Len(indent) + Len(t) + 3 <= wrap_at

(***************************************************************************)
(* C1                                                                      *)
(***************************************************************************)
\* C1: what is written after the header, whitespace aside, is exactly the
\* quoted, comma-terminated texts of the applicable entries that start like
\* an identifier, in table order, duplicates included, once each, and
\* nothing else (the footer follows when the run is over).
C1_TokensAreAcceptedInOrder ==
    regex # "uncompiled" =>
        /\ HeaderWritten
        /\ NoSpace(Body) =
             Concat([k \in 1..Len(AcceptedTexts(i)) |-> Quoted(AcceptedTexts(i)[k])])
               \o (IF pc = "exit" THEN <<"]", ")">> ELSE <<>>)

C1_Witness ==
    /\ Finished
    /\ \E j, k \in 1..Len(table) :
          /\ j < k
          /\ AcceptedEntry(table[j]) /\ AcceptedEntry(table[k])
          /\ table[j].string = table[k].string
    /\ \E j \in 1..Len(table) : ~AcceptedEntry(table[j])
    /\ Len(OutTokens) = 2

(***************************************************************************)
(* C2                                                                      *)
(***************************************************************************)
\* C2 (as claimed): no line of the output, header and footer included, is
\* longer than 80 characters.
C2_NoLineOver80 ==
    LET ls == AllLines
    IN  \A k \in 1..Len(ls) : Len(ls[k]) <= wrap_at

\* C2 (amended): a line is longer than 80 characters only if it is a keyword
\* line holding a single token whose text is too long to fit after the
\* indentation (more than 73 characters); header lines, the footer and every
\* line with two or more tokens stay within 80.
C2_OnlyLoneLongTokenOver80 ==
    LET ls == AllLines
    IN  \A k \in 1..Len(ls) :
            Len(ls[k]) > wrap_at =>
                /\ k > Len(HeaderLines) - 1
                /\ ls[k] \in Range(KeywordLines)
                /\ Len(TokensOf(ls[k])) = 1
                /\ ~FitsAlone(TokensOf(ls[k])[1])

C2_Witness ==
    /\ Finished
    /\ LET ls == KeywordLines
       IN  /\ \E k \in 1..Len(ls) : Len(ls[k]) > wrap_at
           /\ \E k \in 1..Len(ls) :
                 Len(TokensOf(ls[k])) >= 2 /\ Len(ls[k]) = wrap_at - 1

(***************************************************************************)
(* C3                                                                      *)
(***************************************************************************)
Filtered(e) == ~Applicable(e) \/ ~StartsLikeIdentifier(e.string)

RunCompletes ==
    (pc = "exit" /\ regex # "uncompiled") =>
        /\ i = Len(table)
        /\ status = EXIT_SUCCESS
        /\ IsSuffix(<<"\n">> \o footer, stdout)

\* C3 (as claimed): the text of an entry that is inapplicable, or that does
\* not start with a letter or underscore, is never a token of the output,
\* and the run still ends with the footer and status 0.
C3_FilteredTextNeverAppears ==
    /\ \A k \in 1..Len(table) :
          Filtered(table[k]) => table[k].string \notin Range(OutTokens)
    /\ RunCompletes

\* C3 (amended): a filtered-out entry contributes no token: its text is a
\* token of the output only when another entry of the table, applicable and
\* starting like an identifier, carries the same text; a text that does not
\* start with a letter or underscore is never a token.  Filtering is not an
\* error: the run ends with the footer and status 0.
C3_FilteredEntryContributesNothing ==
    /\ \A k \in 1..Len(table) :
          (Filtered(table[k]) /\ table[k].string \in Range(OutTokens)) =>
              \E j \in 1..i :
                  /\ AcceptedEntry(table[j])
                  /\ table[j].string = table[k].string
    /\ \A k \in 1..Len(table) :
          ~StartsLikeIdentifier(table[k].string) =>
              table[k].string \notin Range(OutTokens)
    /\ RunCompletes

C3_Witness ==
    /\ Finished
    /\ \E k \in 1..Len(table) :
          ~Applicable(table[k]) /\ table[k].string \notin Range(OutTokens)
    /\ \E k \in 1..Len(table) :
          Applicable(table[k]) /\ ~StartsLikeIdentifier(table[k].string)
    /\ OutTokens # <<>>

(***************************************************************************)
(* C4                                                                      *)
(***************************************************************************)
\* C4: when no entry is accepted (empty table, or every entry filtered out),
\* the output is the header immediately followed by the footer.
C4_EmptyIsHeaderThenFooter ==
    (Finished /\ AcceptedTexts(Len(table)) = <<>>) => stdout = header \o footer

(***************************************************************************)
(* C5                                                                      *)
(***************************************************************************)
\* C5: every emitted text is a valid identifier from its first character to
\* its last.
C5_TokensAreIdentifiers ==
    \A k \in 1..Len(OutTokens) : WholeIdentifier(OutTokens[k])

(***************************************************************************)
(* C6                                                                      *)
(***************************************************************************)
\* C6: every line between the header and the footer is the indentation
\* followed by one or more quoted, comma-terminated tokens separated by
\* single spaces; none is empty, none ends with a space.
C6_KeywordLinesWellShaped ==
    Finished =>
        LET ls == KeywordLines
        IN  \A k \in 1..Len(ls) : WellShaped(ls[k])

(***************************************************************************)
(* C7                                                                      *)
(***************************************************************************)
\* A step of the loop that prints a keyword.
EmitStep == pc = "loop" /\ i' = i + 1 /\ stdout' # stdout

\* The step begins by ending the current line.
StartsNewLine == stdout'[Len(stdout) + 1] = "\n"

\* C7 (as claimed): a new line is started before an accepted keyword exactly
\* when the characters of the current line (the indentation about to be
\* written, for the first token), plus the keyword with its quotes, comma and
\* separating space, exceed 80.
C7_WrapIffLineWouldExceed ==
    [][EmitStep =>
         LET len  == Len(table[i + 1].string)
             line == IF Len(CurLine) = 0 THEN Len(indent) ELSE Len(CurLine)
         IN  StartsNewLine <=> (line + len + 4 > wrap_at)]_vars

\* C7 (amended): the decision is taken against a count that is one more than
\* the length of the current line.  A keyword that follows a token is moved
\* to a new line exactly when the line's length, plus one, plus the keyword's
\* length plus 4 exceeds 80 (that is, when appending it would make the line
\* 80 characters or longer); the first accepted keyword is preceded by a line
\* break exactly when its length plus 4 exceeds 80, the indentation about to
\* be written not being counted.
C7_WrapIffCountWouldExceed ==
    [][EmitStep =>
         LET len   == Len(table[i + 1].string)
             count == IF Len(CurLine) = 0 THEN 0 ELSE Len(CurLine) + 1
         IN  StartsNewLine <=> (count + len + 4 > wrap_at)]_vars

\* Both sides of the boundary have been taken: a token appended to make a line
\* of 79 characters, and a token moved to a new line although the line it
\* left would have been exactly 80 characters long with it.
C7_Witness ==
    /\ Finished
    /\ LET ls == KeywordLines
       IN  /\ \E k \in 1..Len(ls) :
                 Len(TokensOf(ls[k])) = 2 /\ Len(ls[k]) = wrap_at - 1
           /\ \E k \in 1..(Len(ls) - 1) :
                 /\ ls[k] # <<>>
                 /\ Len(ls[k]) + 1 + Len(Quoted(TokensOf(ls[k + 1])[1])) = wrap_at

(***************************************************************************)
(* C8                                                                      *)
(***************************************************************************)
\* A text whose quoted form alone is longer than the wrap width.
Giant(t) == Len(t) + 2 > wrap_at

\* C8: an accepted keyword whose quoted token alone is longer than 80
\* characters is printed whole and alone on its line, wherever it stands in
\* the table, with no empty line before or after it.
C8_GiantTokenAloneNoEmptyLine ==
    Finished =>
        LET ls == KeywordLines
        IN  \A t \in Range(AcceptedTexts(Len(table))) :
                Giant(t) =>
                    /\ \E k \in 1..Len(ls) : ls[k] = indent \o Quoted(t)
                    /\ \A k \in 1..Len(ls) :
                          t \in Range(TokensOf(ls[k])) =>
                              /\ ls[k] = indent \o Quoted(t)
                              /\ k > 1 => ls[k - 1] # <<>>
                              /\ k < Len(ls) => ls[k + 1] # <<>>

(***************************************************************************)
(* C9                                                                      *)
(***************************************************************************)
FooterCount ==
    Cardinality({ k \in 1..(Len(Body) - Len(footer) + 1) :
                    SubSeq(Body, k, k + Len(footer) - 1) = footer })

SetupFailureIsSilentOnStdout ==
    /\ pc = "regcomp" => stdout = <<>>
    /\ status = EXIT_FAILURE =>
          /\ stdout = <<>>
          /\ stderr # <<>>
          /\ regex = "uncompiled"

CleanRun ==
    regex # "uncompiled" =>
        /\ stderr = <<>>
        /\ status \in {NotExited, EXIT_SUCCESS}
        /\ pc = "loop" => (status = NotExited /\ FooterCount = 0)
        /\ pc = "exit" =>
              /\ status = EXIT_SUCCESS
              /\ i = Len(table)
              /\ FooterCount = 1
              /\ IsSuffix(footer, stdout)

\* C9: when the pattern cannot be compiled the run ends with a non-zero
\* status and a message on standard error, nothing having been written to
\* standard output; every other run reaches the end of the table, writes the
\* footer exactly once and ends with status 0.  Every run ends.
C9_SetupFailureOrCleanExit ==
    /\ [](SetupFailureIsSilentOnStdout /\ CleanRun)
    /\ <>(pc = "exit")

C9_Witness ==
    /\ pc = "exit"
    /\ status = EXIT_FAILURE
    /\ stderr # <<>>
    /\ Len(table) > 0

====
